---- MODULE Spec2Model ----
(***************************************************************************)
(* tide-clean-path: the CleanPath middleware of src/lib.rs.                *)
(*                                                                         *)
(* A path is a sequence of one-character strings.  The middleware holds no *)
(* state of its own; the state of the model is the request in flight, the  *)
(* response produced for it and the number of times the downstream handler *)
(* (next.run) was invoked for it.  A client that receives a permanent      *)
(* redirect may follow it, which sends the Location URL back through the   *)
(* middleware.                                                             *)
(*                                                                         *)
(* path_clean::clean is the path-clean crate's function (version 0.1, the  *)
(* one returning a String), called at src/lib.rs:42.  Its operators below  *)
(* follow that crate's algorithm: trim trailing '/', split on '/', skip    *)
(* empty and "." segments, pop on "..", drop ".." at the root, re-join.    *)
(***************************************************************************)
EXTENDS Integers, Sequences, FiniteSets, TLC

VARIABLES req, resp, nextRuns, pc, hops, arg, ext

vars == <<req, resp, nextRuns, pc, hops, arg, ext>>

(* ------------------------------ bounds --------------------------------- *)

\* longest path (and longest has_ext argument) enumerated, in characters
MaxLen == 7

\* redirects one client follows in a row before giving up
MaxHops == 2

Alphabet == {"/", ".", "a"}

\* every string of at most n characters
Strings(n) == UNION {[1..k -> Alphabet] : k \in 0..n}

\* every string of at most n characters that begins with '/'
Paths(n) == {s \in Strings(n) : Len(s) >= 1 /\ s[1] = "/"}

NoUrl == [scheme |-> "", host |-> "", path |-> <<>>, query |-> "", fragment |-> ""]

\* the parts of a request URL other than its path
Bases ==
  { [scheme |-> "http", host |-> "localhost", query |-> "", fragment |-> ""],
    [scheme |-> "http", host |-> "localhost", query |-> "a=1&b=2", fragment |-> ""],
    [scheme |-> "https", host |-> "example.org", query |-> "a=1", fragment |-> "top"] }

\* req: the request's URL; resp: what handle returned (a redirect with its
\* Location, or the downstream handler's response); nextRuns: next.run calls
\* made for the request; pc: where the request is; hops: redirects followed;
\* arg, ext: the argument and the result of a has_ext call
TypeOK ==
  /\ req.path \in Seq(Alphabet)
  /\ resp.kind \in {"none", "redirect", "downstream"}
  /\ resp.location.path \in Seq(Alphabet)
  /\ nextRuns \in 0..1
  /\ pc \in {"idle", "received", "handled", "call", "returned"}
  /\ hops \in 0..MaxHops
  /\ arg \in Seq(Alphabet)
  /\ ext \in BOOLEAN

(* --------------------------- str primitives ---------------------------- *)

\* str::contains
Contains(s, sub) ==
  \E i \in 1..(Len(s) - Len(sub) + 1) : SubSeq(s, i, i + Len(sub) - 1) = sub

\* str::ends_with(char)
EndsWith(s, c) == Len(s) > 0 /\ s[Len(s)] = c

\* str::starts_with
StartsWith(s, c) == Len(s) > 0 /\ s[1] = c

\* str::rfind(char): the index of the last c, 0 for None
RFind(s, c) ==
  IF \E i \in 1..Len(s) : s[i] = c
    THEN CHOOSE i \in 1..Len(s) : s[i] = c /\ \A j \in (i + 1)..Len(s) : s[j] # c
    ELSE 0

\* str::trim_end_matches("/")
RECURSIVE TrimEndSlashes(_)
TrimEndSlashes(s) ==
  IF EndsWith(s, "/") THEN TrimEndSlashes(SubSeq(s, 1, Len(s) - 1)) ELSE s

\* str::split("/"), collected: the empty string splits into one empty segment
RECURSIVE Split(_)
Split(s) ==
  IF ~Contains(s, <<"/">>)
    THEN <<s>>
    ELSE LET i == CHOOSE k \in 1..Len(s) :
                    s[k] = "/" /\ \A j \in 1..(k - 1) : s[j] # "/"
         IN <<SubSeq(s, 1, i - 1)>> \o Split(SubSeq(s, i + 1, Len(s)))

\* [&str]::join("/")
RECURSIVE Join(_)
Join(segs) ==
  IF segs = <<>> THEN <<>>
  ELSE IF Len(segs) = 1 THEN segs[1]
  ELSE segs[1] \o <<"/">> \o Join(Tail(segs))

(* ------------------------- path_clean::clean --------------------------- *)

can_backtrack(segment) == segment # <<".">> /\ segment # <<".", ".">>

\* the loop over path.split("/") with its output stack
RECURSIVE clean_segments(_, _, _, _)
clean_segments(segs, out, is_root, num_segments) ==
  IF segs = <<>> THEN out
  ELSE
    LET segment == Head(segs)
        rest == Tail(segs)
    IN  IF segment = <<>>
          THEN clean_segments(rest, out, is_root, num_segments)
        ELSE IF segment = <<".">>
          THEN clean_segments(rest,
                 IF num_segments = 1 THEN Append(out, segment) ELSE out,
                 is_root, num_segments)
        ELSE IF segment = <<".", ".">>
          THEN clean_segments(rest,
                 IF out # <<>> /\ ~can_backtrack(out[Len(out)])
                   THEN Append(out, segment)
                 ELSE IF out = <<>> /\ ~is_root
                   THEN Append(out, segment)
                 ELSE IF out = <<>> THEN out
                 ELSE SubSeq(out, 1, Len(out) - 1),
                 is_root, num_segments)
        ELSE clean_segments(rest, Append(out, segment), is_root, num_segments)

clean(path) ==
  IF path = <<>> \/ path = <<".">> THEN <<".">>
  ELSE IF path = <<".", ".">> THEN <<".", ".">>
  ELSE IF path = <<"/">> THEN <<"/">>
  ELSE
    LET is_root == StartsWith(path, "/")
        trimmed == TrimEndSlashes(path)
        segs == Split(trimmed)
        out == clean_segments(segs, <<>>, is_root, Len(segs))
        out_str == IF is_root THEN <<"/">> \o Join(out) ELSE Join(out)
    IN  IF Len(out_str) = 0 THEN <<".">> ELSE out_str

(* ------------------------------ has_ext -------------------------------- *)

\* has_ext without the `!sub.is_empty()` test
has_ext_allows_empty(path) ==
  LET index == RFind(path, ".")
  IN  IF index = 0 THEN FALSE
      ELSE ~Contains(SubSeq(path, index + 1, Len(path)), <<"/">>)

\* has_ext without the `!sub.contains('/')` test
has_ext_ignores_slash(path) ==
  LET index == RFind(path, ".")
  IN  IF index = 0 THEN FALSE
      ELSE SubSeq(path, index + 1, Len(path)) # <<>>

has_ext(path) ==
  LET index == RFind(path, ".")
  IN  IF index = 0 THEN FALSE
      ELSE LET sub == SubSeq(path, index + 1, Len(path))
           IN  sub # <<>> /\ ~Contains(sub, <<"/">>)

(* --------------------------- CleanPath::handle ------------------------- *)

\* the fast path without the contains("//") test
fast_path_no_merge_check(original_path) ==
  /\ ~Contains(original_path, <<"/", ".">>)
  /\ (has_ext(original_path) # EndsWith(original_path, "/"))

\* the fast path without the contains("/.") test
fast_path_no_dot_check(original_path) ==
  /\ ~Contains(original_path, <<"/", "/">>)
  /\ (has_ext(original_path) # EndsWith(original_path, "/"))

\* the condition of the non-allocating fast path
fast_path(original_path) ==
  /\ ~Contains(original_path, <<"/", ".">>)
  /\ ~Contains(original_path, <<"/", "/">>)
  /\ (has_ext(original_path) # EndsWith(original_path, "/"))

\* the policy without `|| !has_ext(&path)`
cleaned_path_slash_only_if_trailing(original_path) ==
  LET trailing_slash == EndsWith(original_path, "/")
      path == clean(original_path)
  IN  IF path # <<"/">> /\ trailing_slash THEN Append(path, "/") ELSE path

\* the policy without `trailing_slash ||`
cleaned_path_ignores_trailing(original_path) ==
  LET path == clean(original_path)
  IN  IF path # <<"/">> /\ ~has_ext(path) THEN Append(path, "/") ELSE path

\* the policy pushing '/' onto every non-root path
cleaned_path_always_slash(original_path) ==
  LET path == clean(original_path)
  IN  IF path # <<"/">> THEN Append(path, "/") ELSE path

\* the slow path's `path`: clean, then the trailing-slash policy
cleaned_path(original_path) ==
  LET trailing_slash == EndsWith(original_path, "/")
      path == clean(original_path)
  IN  IF path # <<"/">> /\ (trailing_slash \/ ~has_ext(path))
        THEN Append(path, "/")
        ELSE path

\* a set_path that rebuilds the URL from scheme, host and path alone
set_path_drops_query(url, path) ==
  [url EXCEPT !.path = path, !.query = "", !.fragment = ""]

\* Url::set_path on a clone of the request URL
set_path(url, path) == [url EXCEPT !.path = path]

\* the handler redirecting from the slow path without `if path != original_path`
handle_always_redirects(url) ==
  IF fast_path(url.path)
    THEN [kind |-> "downstream", location |-> NoUrl, runs |-> 1]
    ELSE [kind |-> "redirect", location |-> set_path(url, cleaned_path(url.path)),
          runs |-> 0]

\* the handler comparing the cleaned path before the trailing-slash policy
handle_compares_before_policy(url) ==
  IF fast_path(url.path)
    THEN [kind |-> "downstream", location |-> NoUrl, runs |-> 1]
  ELSE IF clean(url.path) # url.path
    THEN [kind |-> "redirect", location |-> set_path(url, cleaned_path(url.path)),
          runs |-> 0]
  ELSE [kind |-> "downstream", location |-> NoUrl, runs |-> 1]

\* the whole handler: the response and the number of next.run calls
handle(url) ==
  LET original_path == url.path
  IN  IF fast_path(original_path)
        THEN [kind |-> "downstream", location |-> NoUrl, runs |-> 1]
      ELSE LET path == cleaned_path(original_path)
           IN  IF path # original_path
                 THEN [kind |-> "redirect", location |-> set_path(url, path),
                       runs |-> 0]
                 ELSE [kind |-> "downstream", location |-> NoUrl, runs |-> 1]

(* ------------------------------ actions -------------------------------- *)

NoResp == [kind |-> "none", location |-> NoUrl]

Init ==
  /\ req = NoUrl
  /\ resp = NoResp
  /\ nextRuns = 0
  /\ pc = "idle"
  /\ hops = 0
  /\ arg = <<>>
  /\ ext = FALSE

\* a request arrives at the server
Receive ==
  /\ pc = "idle"
  /\ \E b \in Bases, p \in Paths(MaxLen) :
       req' = [scheme |-> b.scheme, host |-> b.host, path |-> p,
               query |-> b.query, fragment |-> b.fragment]
  /\ pc' = "received"
  /\ UNCHANGED <<resp, nextRuns, hops, arg, ext>>

\* the middleware handles the request
Handle ==
  /\ pc = "received"
  /\ LET r == handle(req)
     IN  /\ resp' = [kind |-> r.kind, location |-> r.location]
         /\ nextRuns' = nextRuns + r.runs
  /\ pc' = "handled"
  /\ UNCHANGED <<req, hops, arg, ext>>

\* the client follows the permanent redirect
Follow ==
  /\ pc = "handled"
  /\ resp.kind = "redirect"
  /\ hops < MaxHops
  /\ req' = resp.location
  /\ resp' = NoResp
  /\ nextRuns' = 0
  /\ hops' = hops + 1
  /\ pc' = "received"
  /\ UNCHANGED <<arg, ext>>

Next == Receive \/ Handle \/ Follow

Spec == Init /\ [][Next]_vars

(* ------------------- has_ext as a function of any string --------------- *)

InitHasExt ==
  /\ req = NoUrl
  /\ resp = NoResp
  /\ nextRuns = 0
  /\ pc = "call"
  /\ hops = 0
  /\ arg \in Strings(MaxLen)
  /\ ext = FALSE

\* has_ext(arg) is called and returns
ApplyHasExt ==
  /\ pc = "call"
  /\ ext' = has_ext(arg)
  /\ pc' = "returned"
  /\ UNCHANGED <<req, resp, nextRuns, hops, arg>>

NextHasExt == ApplyHasExt

SpecHasExt == InitHasExt /\ [][NextHasExt]_vars

(* ------------------------------ properties ----------------------------- *)

\* the canonical form of the handled request's path: the Redirect target, or
\* the path itself when the outcome is Unchanged
Canonical == IF resp.kind = "redirect" THEN resp.location.path ELSE req.path

\* the segments of a path that begins with '/': the pieces between slashes,
\* without the empty piece before the first '/' and after a final '/'
Segments(p) ==
  LET pieces == Tail(Split(p))
  IN  IF EndsWith(p, "/") THEN SubSeq(pieces, 1, Len(pieces) - 1) ELSE pieces

NonEmpty(segs) == SelectSeq(segs, LAMBDA x : x # <<>>)

IsDot(x) == x = <<".">> \/ x = <<".", ".">>

\* a segment looks like a file: it holds a '.' and does not end with one
SegHasExt(x) ==
  /\ Len(x) > 0
  /\ \E i \in 1..Len(x) : x[i] = "."
  /\ x[Len(x)] # "."

FinalSegment(p) == LET ne == NonEmpty(Split(p)) IN ne[Len(ne)]

\* C1: idempotence.  A request that arrived by following a redirect is never
\* redirected again: the downstream handler runs; and whenever the outcome is
\* Unchanged the path is its own cleaned, policy-applied form.
C1_Idempotent ==
  pc = "handled" =>
    /\ hops >= 1 => (resp.kind = "downstream" /\ nextRuns = 1)
    /\ resp.kind = "downstream" => cleaned_path(req.path) = req.path

C1_Witness ==
  /\ pc = "handled" /\ hops = 1 /\ resp.kind = "downstream"
  /\ Contains(req.path, <<"/", ".">>)

\* C2: fast-path/slow-path equivalence.  Whenever the three fast-path
\* conditions hold of the handled path, the slow path run on it yields the
\* same path, and the outcome is Unchanged.
C2_FastSlowEquivalent ==
  (pc = "handled"
     /\ ~Contains(req.path, <<"/", ".">>)
     /\ ~Contains(req.path, <<"/", "/">>)
     /\ (has_ext(req.path) # EndsWith(req.path, "/")))
    => (cleaned_path(req.path) = req.path /\ resp.kind = "downstream")

C2_Witness ==
  /\ pc = "handled" /\ fast_path(req.path) /\ Len(req.path) >= 4
  /\ has_ext(req.path) /\ resp.kind = "downstream"

\* C3: every handled request was either redirected without the downstream
\* handler being invoked, or passed to the downstream handler exactly once;
\* it was redirected iff the cleaned, policy-applied path differs from the
\* original, and a redirect never targets the original path.
C3_RedirectXorDownstream ==
  /\ pc # "handled" => (nextRuns = 0 /\ resp.kind = "none")
  /\ pc = "handled" =>
       \/ /\ resp.kind = "redirect"
          /\ nextRuns = 0
          /\ cleaned_path(req.path) # req.path
          /\ resp.location.path # req.path
       \/ /\ resp.kind = "downstream"
          /\ nextRuns = 1
          /\ cleaned_path(req.path) = req.path

C3_Witness ==
  pc = "handled" /\ resp.kind = "redirect" /\ nextRuns = 0 /\ hops = 0

\* C4: handling leaves the request URL as it was, and a redirect's target is
\* the request URL with only its path replaced by the canonical path: scheme,
\* host, query and fragment are those of the request.
C4_OnlyPathReplaced ==
  [][(pc = "received" /\ pc' = "handled") =>
       /\ req' = req
       /\ resp'.kind = "redirect" =>
            /\ resp'.location.path = cleaned_path(req.path)
            /\ resp'.location.scheme = req.scheme
            /\ resp'.location.host = req.host
            /\ resp'.location.query = req.query
            /\ resp'.location.fragment = req.fragment]_vars

C4_Witness ==
  /\ pc = "handled" /\ resp.kind = "redirect"
  /\ req.path = <<"/", "/", "/">> /\ req.query = "a=1&b=2"
  /\ resp.location.path = <<"/">> /\ resp.location.query = "a=1&b=2"

\* C5: slash-collapse.  The canonical form holds no "//"; and when the input
\* has no "." or ".." segment, the canonical form has exactly the input's
\* non-empty segments, each run of slashes having become one slash.
C5_SlashCollapse ==
  pc = "handled" =>
    /\ ~Contains(Canonical, <<"/", "/">>)
    /\ (\A i \in 1..Len(Split(req.path)) : ~IsDot(Split(req.path)[i]))
         => Segments(Canonical) = NonEmpty(Split(req.path))

C5_Witness ==
  /\ pc = "handled" /\ hops = 0 /\ resp.kind = "redirect"
  /\ Contains(req.path, <<"/", "/", "/">>)
  /\ Len(NonEmpty(Split(req.path))) >= 2

\* C6: no escape above the root.  The canonical form begins with '/' and has
\* no segment equal to "..".
C6_NoEscape ==
  pc = "handled" =>
    /\ StartsWith(Canonical, "/")
    /\ \A i \in 1..Len(Split(Canonical)) : Split(Canonical)[i] # <<".", ".">>

C6_Witness ==
  /\ pc = "handled" /\ hops = 0 /\ resp.kind = "redirect"
  /\ req.path = <<"/", "a", "/", ".", ".", "/", ".", ".">>
     \/ req.path = <<"/", ".", ".", "/", "a">>

\* C7: extension-based suffixing.  When the cleaned path is the root the
\* canonical form is "/"; otherwise the canonical form ends with '/' iff the
\* original path ended with '/' or the cleaned path's final segment has no
\* extension.
C7_Suffixing ==
  pc = "handled" =>
    IF clean(req.path) = <<"/">>
      THEN Canonical = <<"/">>
      ELSE EndsWith(Canonical, "/")
             <=> (EndsWith(req.path, "/") \/ ~SegHasExt(FinalSegment(clean(req.path))))

C7_Witness ==
  /\ pc = "handled" /\ req.path = <<"/", "a", ".">>
  /\ Canonical = <<"/", "a", ".", "/">>

\* C8 as stated: a non-root canonical path ends with '/' if and only if its
\* final segment has no extension.
C8_AsStated ==
  (pc = "handled" /\ Canonical # <<"/">>) =>
    (EndsWith(Canonical, "/") <=> ~SegHasExt(FinalSegment(Canonical)))

\* C8 as amended: a non-root canonical path whose final segment has no
\* extension ends with '/' (a canonical path that does not end with '/' has a
\* final segment with an extension); the converse is not required.
C8_NoExtensionEndsWithSlash ==
  (pc = "handled" /\ Canonical # <<"/">>) =>
    (~SegHasExt(FinalSegment(Canonical)) => EndsWith(Canonical, "/"))

C8_Witness ==
  /\ pc = "handled" /\ resp.kind = "redirect"
  /\ ~EndsWith(req.path, "/") /\ Canonical # <<"/">>
  /\ ~SegHasExt(FinalSegment(Canonical)) /\ EndsWith(Canonical, "/")

\* C9: a path holding "/." never takes the fast path; when all its segments
\* are non-empty and none is "." or "..", and it already satisfies the
\* trailing-slash policy, the slow path reproduces it and the downstream
\* handler runs without a redirect.
C9_HiddenSegmentsUnchanged ==
  (pc = "handled" /\ Contains(req.path, <<"/", ".">>)) =>
    /\ ~fast_path(req.path)
    /\ ( /\ \A i \in 1..Len(Segments(req.path)) :
               Segments(req.path)[i] # <<>> /\ ~IsDot(Segments(req.path)[i])
         /\ has_ext(req.path) # EndsWith(req.path, "/") )
       => /\ cleaned_path(req.path) = req.path
          /\ resp.kind = "downstream"
          /\ nextRuns = 1

C9_Witness ==
  /\ pc = "handled" /\ hops = 0 /\ resp.kind = "downstream"
  /\ req.path = <<"/", ".", "a", "/", ".", "a">>

\* C10: has_ext(p) and "p ends with '/'" are never both true; has_ext is true
\* exactly when some '.' is followed by at least one character and by no '.'
\* and no '/'; so has_ext XOR trailing_slash equals has_ext OR trailing_slash
\* and fails only when the string neither ends with '/' nor has an extension.
C10_ExtExcludesTrailingSlash ==
  pc = "returned" =>
    /\ ~(ext /\ EndsWith(arg, "/"))
    /\ ext <=> \E i \in 1..(Len(arg) - 1) :
                 /\ arg[i] = "."
                 /\ \A j \in (i + 1)..Len(arg) : arg[j] # "." /\ arg[j] # "/"
    /\ (ext # EndsWith(arg, "/")) <=> (ext \/ EndsWith(arg, "/"))
    /\ ~(ext # EndsWith(arg, "/")) <=> (~ext /\ ~EndsWith(arg, "/"))

C10_Witness ==
  /\ pc = "returned" /\ ~ext
  /\ EndsWith(arg, "/") /\ Contains(arg, <<".", "a", "/">>)

====
